---- MODULE Spec2Model ----
(***************************************************************************)
(* Model of the polymarket-btc collectors:                                 *)
(*   - scripts/fetch_cb_history.py     (candle backfill, chunk planner)    *)
(*   - polymarket_btc/api.py           (event resolver)                    *)
(*   - scripts/resample_prices_history.py (series resampler)               *)
(* Each program has its own specification; the variables of the programs   *)
(* that are not running stay at their idle values.                         *)
(***************************************************************************)
EXTENDS Integers, Sequences, FiniteSets, TLC

VARIABLES
    \* ---- fetch_cb_history.py main() ----
    pc,             \* position of main(): "start" | "loop" | "done" | "crashed" | "idle"
    start_dt,       \* parse_iso(args.start), epoch seconds
    end_dt,         \* parse_iso(args.end), epoch seconds
    granularity,    \* args.granularity
    chunk_i,        \* number of chunks the for loop has taken from the generator
    total_chunks,   \* total_chunks counter of main()
    out_exists,     \* out_path.exists()
    out_header,     \* the file starts with the csv header line
    out_rows,       \* the data rows of the output file, in file order
    pre_rows,       \* rows the file held before the run (history variable)
    fetched,        \* responses of the successful fetches, in fetch order (history variable)
    exc,            \* exception that left main(): "none" | "HTTPError"
    wire,           \* what main() did on the network, in order: <<"request", start, end>>
                    \* per GET and <<"delay", 0, 0>> per sleep (history variable)
    \* ---- api.py get_latest_btc_daily_event() ----
    rpc,            \* position of the call: "call" | "detail" | "returned" | "raised" | "idle"
    events,         \* series["events"] as the provider lists them
    now,            \* the reference instant
    load_details,   \* the load_details argument
    base,           \* base = get_all_btc_daily_events(load_details=False)
    latest_meta,    \* the selected event, NoEvent before the selection
    result,         \* the returned event, NoEvent when nothing was returned
    detail_fetches, \* number of GET events/slug/{slug} issued
    rexc,           \* exception that left the call: "none" | "ValueError" | "IndexError" | "HTTPError"
    \* ---- resample_prices_history.py resample_df() ----
    spc,            \* position in process_files: "call" | "returned" | "written" | "skipped" | "idle"
    df,             \* the frame passed in: observations [ts, prob], ascending by ts
    rule,           \* the resample rule, in seconds
    method,         \* "ffill" | "linear"
    raw,            \* rs after resample(...).mean(), before filling (line 35)
    rs,             \* the returned frame: rows [ts, prob]
    csv,            \* the rows of the csv file written for the history: [ts, prob, elapsed_hours]
    \* ---- api.py get_all_btc_daily_events() ----
    gpc,            \* position of the call: "call" | "loop" | "returned" | "raised" | "idle"
    g_events,       \* series["events"] as the provider lists them
    g_load_details, \* the load_details argument
    closed_only,    \* the closed_only argument
    ordered,        \* ordered = sorted(events, key=_end_date)
    g_i,            \* number of events the for loop has taken from ordered
    detailed,       \* the list detailed
    g_result,       \* the returned list
    gexc,           \* exception that left the call: "none" | "HTTPError"
    \* ---- recorders.py poll_trades_to_file() ----
    ppc,            \* position of the call: "fetch" | "wait" | "done" | "idle"
    iterations,     \* the iterations argument
    interval_sec,   \* the interval_sec argument
    p_i,            \* the loop variable i
    clock,          \* time.time(), in seconds since the call started
    nd_file,        \* the records of the ndjson file, in file order
    nd_pre,         \* records the file held before the call (history variable)
    outcomes,       \* outcome of each fetch_trades call, in order (history variable)
    p_waits         \* number of time.sleep(interval_sec) calls made (history variable)

bvars == <<pc, start_dt, end_dt, granularity, chunk_i, total_chunks,
           out_exists, out_header, out_rows, pre_rows, fetched, exc, wire>>

rvars == <<rpc, events, now, load_details, base, latest_meta, result, detail_fetches, rexc>>

svars == <<spc, df, rule, method, raw, rs, csv>>

gvars == <<gpc, g_events, g_load_details, closed_only, ordered, g_i, detailed, g_result, gexc>>

pvars == <<ppc, iterations, interval_sec, p_i, clock, nd_file, nd_pre, outcomes, p_waits>>

vars == <<bvars, rvars, svars, gvars, pvars>>

\* the variables of the other programs
notB == <<rvars, svars, gvars, pvars>>
notR == <<bvars, svars, gvars, pvars>>
notS == <<bvars, rvars, gvars, pvars>>
notG == <<bvars, rvars, svars, pvars>>
notP == <<bvars, rvars, svars, gvars>>

----------------------------------------------------------------------------
\* Bounds of the model

\* the requested range spans at most this many chunks
MaxChunks == 2
\* a provider response holds at most this many candles
MaxResp == 2
\* a series lists at most this many events
MaxEvents == 3
\* endDates fall on days 1..MaxDay
MaxDay == 3
\* a price history holds at most this many observations
MaxObs == 3
\* observation times are 0, 900, ..., MaxT * 900 seconds
MaxT == 6
\* poll_trades_to_file is called with at most this many iterations
MaxIter == 3

----------------------------------------------------------------------------
\* Generic helpers

Min(a, b) == IF a < b THEN a ELSE b

Range(s) == {s[i] : i \in 1..Len(s)}

\* sequences over S without repetition, of length at most n
RECURSIVE InjSeqs(_, _)
InjSeqs(S, n) ==
    IF n = 0 THEN {<<>>}
    ELSE {<<>>} \cup UNION {{<<x>> \o t : t \in InjSeqs(S \ {x}, n - 1)} : x \in S}

----------------------------------------------------------------------------
\* Sorting (Python's sorted is stable; items are <<key, value>> pairs)

RECURSIVE InsertByKey(_, _)
InsertByKey(x, s) ==
    IF s = <<>> THEN <<x>>
    ELSE IF x[1] < Head(s)[1] THEN <<x>> \o s
    ELSE <<Head(s)>> \o InsertByKey(x, Tail(s))

\* sorted(s, key=first component)
RECURSIVE SortedByKey(_)
SortedByKey(s) ==
    IF s = <<>> THEN <<>>
    ELSE InsertByKey(s[Len(s)], SortedByKey(SubSeq(s, 1, Len(s) - 1)))

Reverse(s) == [i \in 1..Len(s) |-> s[Len(s) + 1 - i]]

\* sorted(s, key=first component, reverse=True): the list is reversed, sorted
\* and reversed again, so items with equal keys keep their order
Unstable_ReverseSortedByKey(s) == Reverse(SortedByKey(s))
ReverseSortedByKey(s) == Reverse(SortedByKey(Reverse(s)))

----------------------------------------------------------------------------
\* polymarket_btc/api.py

\* an endDate text is <<day, hour>>; evt.get("endDate") is falsy when it is
\* absent or the empty text
EmptyEndDate == <<>>
\* datetime.min.replace(tzinfo=timezone.utc): before every instant
DATETIME_MIN == -1
HoursPerDay == 24

\* _parse_ts: the instant (in hours) an endDate text stands for
_parse_ts(ts) == ts[1] * HoursPerDay + ts[2]

\* _end_date(evt)
MissingAsLatest_end_date(evt) ==
    IF evt.endDate = EmptyEndDate THEN 100000 ELSE _parse_ts(evt.endDate)
_end_date(evt) ==
    IF evt.endDate = EmptyEndDate THEN DATETIME_MIN ELSE _parse_ts(evt.endDate)

\* sorted(evts, key=_end_date)
sorted_by_end_date(evts) ==
    LET keyed == [i \in 1..Len(evts) |-> <<_end_date(evts[i]), evts[i]>>]
        srt == SortedByKey(keyed)
    IN [i \in 1..Len(srt) |-> srt[i][2]]

\* sorted(evts, key=_end_date, reverse=True)
reverse_sorted_by_end_date(evts) ==
    LET keyed == [i \in 1..Len(evts) |-> <<_end_date(evts[i]), evts[i]>>]
        srt == ReverseSortedByKey(keyed)
    IN [i \in 1..Len(srt) |-> srt[i][2]]

\* get_all_btc_daily_events(load_details=False): ordered = sorted(events, key=_end_date)
get_all_btc_daily_events(evts) == sorted_by_end_date(evts)

\* candidates = [evt for evt in base if not evt.get("closed") and _end_date(evt) > now]
IgnoreClosed_candidates(b, t) ==
    LET keep(evt) == _end_date(evt) > t IN SelectSeq(b, keep)
candidates(b, t) ==
    LET keep(evt) == (~evt.closed) /\ _end_date(evt) > t IN SelectSeq(b, keep)

\* if not base: raise ValueError(...)
Unchecked_no_events(b) == FALSE
no_events(b) == b = <<>>

NoEvent == [slug |-> 0, endDate |-> EmptyEndDate, closed |-> FALSE, detailed |-> FALSE]

\* the selected list whose element [0] is latest_meta
selection(b, t) ==
    IF candidates(b, t) # <<>>
    THEN sorted_by_end_date(candidates(b, t))
    ELSE reverse_sorted_by_end_date(b)

\* fetch_json(events/slug/{slug}): the full payload of the event
detail_of(evt) == [evt EXCEPT !.detailed = TRUE]

\* ---- inputs of a call ----
\* daily markets resolve at a fixed hour of the day
ResolveHour == 17
EndDateTexts == {EmptyEndDate} \cup {<<d, ResolveHour>> : d \in 1..MaxDay}
Nows == {d * HoursPerDay + h : d \in 1..MaxDay, h \in {ResolveHour - 1, ResolveHour}}

\* the event lists of n events; the slug of an event is unique in the series
EventLists(n) ==
    {[i \in 1..n |-> [slug |-> i, endDate |-> f[i][1], closed |-> f[i][2], detailed |-> FALSE]] :
        f \in [1..n -> EndDateTexts \X BOOLEAN]}

RInit ==
    /\ rpc = "call"
    /\ events \in UNION {EventLists(n) : n \in 0..MaxEvents}
    /\ now \in Nows
    /\ load_details \in BOOLEAN
    /\ base = <<>>
    /\ latest_meta = NoEvent
    /\ result = NoEvent
    /\ detail_fetches = 0
    /\ rexc = "none"

\* get_latest_btc_daily_event() is not running
RIdle ==
    /\ rpc = "idle"
    /\ events = <<>>
    /\ now = 0
    /\ load_details = FALSE
    /\ base = <<>>
    /\ latest_meta = NoEvent
    /\ result = NoEvent
    /\ detail_fetches = 0
    /\ rexc = "none"

\* the series fetch succeeds: lines 125-135
Resolve ==
    /\ rpc = "call"
    /\ UNCHANGED notR
    /\ base' = get_all_btc_daily_events(events)
    /\ IF no_events(base')
       THEN /\ rexc' = "ValueError"
            /\ rpc' = "raised"
            /\ UNCHANGED <<latest_meta, result>>
       ELSE IF selection(base', now) = <<>>
       THEN /\ rexc' = "IndexError"
            /\ rpc' = "raised"
            /\ UNCHANGED <<latest_meta, result>>
       ELSE /\ latest_meta' = selection(base', now)[1]
            /\ rexc' = "none"
            /\ IF load_details
               THEN rpc' = "detail" /\ result' = result
               ELSE rpc' = "returned" /\ result' = latest_meta'
    /\ UNCHANGED <<events, now, load_details, detail_fetches>>

\* the series fetch raises (fetch_json: timeout, raise_for_status)
SeriesFetchFail ==
    /\ rpc = "call"
    /\ UNCHANGED notR
    /\ rexc' = "HTTPError"
    /\ rpc' = "raised"
    /\ UNCHANGED <<events, now, load_details, base, latest_meta, result, detail_fetches>>

\* line 136: the detail fetch succeeds
DetailOk ==
    /\ rpc = "detail"
    /\ UNCHANGED notR
    /\ detail_fetches' = detail_fetches + 1
    /\ result' = detail_of(latest_meta)
    /\ rpc' = "returned"
    /\ UNCHANGED <<events, now, load_details, base, latest_meta, rexc>>

\* line 136: the detail fetch raises
DetailFail ==
    /\ rpc = "detail"
    /\ UNCHANGED notR
    /\ detail_fetches' = detail_fetches + 1
    /\ rexc' = "HTTPError"
    /\ rpc' = "raised"
    /\ UNCHANGED <<events, now, load_details, base, latest_meta, result>>

RNext == Resolve \/ SeriesFetchFail \/ DetailOk \/ DetailFail

----------------------------------------------------------------------------
\* scripts/fetch_cb_history.py

\* Coinbase caps at 300 candles per request
CB_MAX_CANDLES == 300

\* max_span = timedelta(seconds=granularity * 300)
Short_max_span(g) == g * (CB_MAX_CANDLES - 1)
max_span(g) == g * CB_MAX_CANDLES

\* nxt = min(cur + max_span, end)
NoMin_chunk_nxt(cur, end, g) == cur + max_span(g)
chunk_nxt(cur, end, g) == Min(cur + max_span(g), end)

\* the sequence of (cur, nxt) pairs the generator yields from cur on
RECURSIVE daterange_chunks(_, _, _)
daterange_chunks(cur, end, g) ==
    IF cur < end
    THEN <<  <<cur, chunk_nxt(cur, end, g)>>  >> \o daterange_chunks(chunk_nxt(cur, end, g), end, g)
    ELSE <<>>

\* the chunks main() iterates over
planned == daterange_chunks(start_dt, end_dt, granularity)

\* datetime.fromtimestamp(ts, tz=utc).isoformat().replace("+00:00", "Z"):
\* the text is the day followed by hour, minute and second of the day
SecondsPerDay == 86400
SecondsPerHour == 3600
SecondsPerMinute == 60
iso_z(ts) == << ts \div SecondsPerDay,
                (ts % SecondsPerDay) \div SecondsPerHour,
                (ts % SecondsPerHour) \div SecondsPerMinute,
                ts % SecondsPerMinute >>

\* a candle is <<time, low, high, open, close, volume>>; the row written for it
candle_row(c) ==
    [timestamp |-> iso_z(c[1]), open |-> c[4], high |-> c[3],
     low |-> c[2], close |-> c[5], volume |-> c[6]]

\* candles = sorted(candles, key=lambda c: c[0])
sort_candles(candles) == SortedByKey(candles)

\* rows = [ {...} for ts, low, high, opn, close, vol in candles ]
rows_of(candles) == [i \in 1..Len(candles) |-> candle_row(candles[i])]

\* append_rows: the file is opened in mode "a" and one line is written per row
Truncating_append_rows(file_rows, rows) == rows
append_rows(file_rows, rows) == file_rows \o rows

\* ---- the provider (external): what one GET .../candles may return ----
\* the candle the venue reports for second ts when asked in request number k
ProviderCandle(ts, k) ==
    LET v == 1 + (k % 2) IN <<ts, v, v + 3, v + 1, v + 2, 10 * v>>

\* both ends of the requested range are inclusive
ProviderTimes(cs, ce, g) == {cs, Min(cs + g, ce), ce}

\* any order (Coinbase answers newest-first), at most MaxResp candles
Responses(cs, ce, g, k) ==
    {[i \in 1..Len(t) |-> ProviderCandle(t[i], k)] : t \in InjSeqs(ProviderTimes(cs, ce, g), MaxResp)}

\* ---- inputs of a run ----
Starts == {0, 86000}
Granularities == {60, 300}
Ends(s, g) ==
    {s - g, s} \cup
    {s + k * max_span(g) + r : k \in 0..(MaxChunks - 1), r \in {g, 12 * g, max_span(g)}}

\* the output file before the run: absent, or left by an earlier run
OldRow == candle_row(ProviderCandle(0, 0))

BInit ==
    /\ pc = "start"
    /\ start_dt \in Starts
    /\ granularity \in Granularities
    /\ end_dt \in Ends(start_dt, granularity)
    /\ chunk_i = 0
    /\ total_chunks = 0
    /\ out_exists \in BOOLEAN
    /\ out_header = out_exists
    /\ out_rows = IF out_exists THEN <<OldRow>> ELSE <<>>
    /\ pre_rows = out_rows
    /\ fetched = <<>>
    /\ exc = "none"
    /\ wire = <<>>

\* main() is not running
BIdle ==
    /\ pc = "idle"
    /\ start_dt = 0
    /\ end_dt = 0
    /\ granularity = 0
    /\ chunk_i = 0
    /\ total_chunks = 0
    /\ out_exists = FALSE
    /\ out_header = FALSE
    /\ out_rows = <<>>
    /\ pre_rows = <<>>
    /\ fetched = <<>>
    /\ exc = "none"
    /\ wire = <<>>

\* ensure_header(out_path); total_chunks = 0
EnsureHeader ==
    /\ pc = "start"
    /\ UNCHANGED notB
    /\ pc' = "loop"
    /\ out_exists' = TRUE
    /\ out_header' = (IF out_exists THEN out_header ELSE TRUE)
    /\ total_chunks' = 0
    /\ UNCHANGED <<start_dt, end_dt, granularity, chunk_i, out_rows, pre_rows, fetched, exc, wire>>

\* one iteration of the for loop whose fetch succeeds
ChunkOk ==
    /\ pc = "loop"
    /\ UNCHANGED notB
    /\ chunk_i < Len(planned)
    /\ LET chunk == planned[chunk_i + 1] IN
       \E resp \in Responses(chunk[1], chunk[2], granularity, chunk_i) :
          /\ out_rows' = append_rows(out_rows, rows_of(sort_candles(resp)))
          /\ fetched' = Append(fetched, resp)
          /\ wire' = Append(wire, <<"request", chunk[1], chunk[2]>>)
    /\ total_chunks' = total_chunks + 1
    /\ chunk_i' = chunk_i + 1
    /\ UNCHANGED <<pc, start_dt, end_dt, granularity, out_exists, out_header, pre_rows, exc>>

\* one iteration of the for loop whose fetch raises (timeout, raise_for_status):
\* nothing in main() catches it
ChunkFail ==
    /\ pc = "loop"
    /\ UNCHANGED notB
    /\ chunk_i < Len(planned)
    /\ wire' = Append(wire, <<"request", planned[chunk_i + 1][1], planned[chunk_i + 1][2]>>)
    /\ exc' = "HTTPError"
    /\ pc' = "crashed"
    /\ UNCHANGED <<start_dt, end_dt, granularity, chunk_i, total_chunks,
                   out_exists, out_header, out_rows, pre_rows, fetched>>

\* the generator is exhausted: print("Done. ...")
Finish ==
    /\ pc = "loop"
    /\ UNCHANGED notB
    /\ chunk_i >= Len(planned)
    /\ pc' = "done"
    /\ UNCHANGED <<start_dt, end_dt, granularity, chunk_i, total_chunks,
                   out_exists, out_header, out_rows, pre_rows, fetched, exc, wire>>

BNext == EnsureHeader \/ ChunkOk \/ ChunkFail \/ Finish

----------------------------------------------------------------------------
\* Rational numbers <<numerator, denominator>> in lowest terms, denominator > 0;
\* NaN stands for a missing value

NaN == <<0, 0>>

Abs(x) == IF x < 0 THEN -x ELSE x

RECURSIVE GCD(_, _)
GCD(a, b) == IF b = 0 THEN a ELSE GCD(b, a % b)

RNorm(r) ==
    LET g == GCD(Abs(r[1]), r[2]) IN <<r[1] \div g, r[2] \div g>>

RAdd(a, b) == RNorm(<<a[1] * b[2] + b[1] * a[2], a[2] * b[2]>>)
RSub(a, b) == RNorm(<<a[1] * b[2] - b[1] * a[2], a[2] * b[2]>>)
\* a * n / m for integers n >= 0, m > 0
RScale(a, n, m) == RNorm(<<a[1] * n, a[2] * m>>)

RECURSIVE RSum(_)
RSum(s) == IF s = <<>> THEN <<0, 1>> ELSE RAdd(s[1], RSum(Tail(s)))

----------------------------------------------------------------------------
\* scripts/resample_prices_history.py

\* origin = df["ts"].iloc[0]
StartDay_origin_of(d) == (d[1].ts \div 86400) * 86400
origin_of(d) == d[1].ts

\* left edge of the first bin: the bin edges are origin + k * rule
first_edge(d, step) ==
    origin_of(d) + ((d[1].ts - origin_of(d)) \div step) * step

\* number of bins: the last bin is the one that holds the last observation
n_bins(d, step) == ((d[Len(d)].ts - first_edge(d, step)) \div step) + 1

\* the values of the observations in bin k (k = 0, 1, ...): bins are closed on
\* the left and open on the right
bin_values(d, step, k) ==
    LET lo == first_edge(d, step) + k * step
        inbin(o) == lo <= o.ts /\ o.ts < lo + step /\ o.prob # NaN
        sel == SelectSeq(d, inbin)
    IN [i \in 1..Len(sel) |-> sel[i].prob]

\* .mean() of one bin: missing values are skipped, an empty bin gives NaN
bin_mean(vals) ==
    IF vals = <<>> THEN NaN ELSE RScale(RSum(vals), 1, Len(vals))

\* rs = sr.resample(rule, origin=origin).mean()
resample_mean(d, step) ==
    [i \in 1..n_bins(d, step) |-> bin_mean(bin_values(d, step, i - 1))]

\* index of the last non-missing value before position i, 0 if none
RECURSIVE prev_valid(_, _)
prev_valid(v, i) ==
    IF i <= 1 THEN 0
    ELSE IF v[i - 1] # NaN THEN i - 1 ELSE prev_valid(v, i - 1)

\* index of the first non-missing value after position i, 0 if none
RECURSIVE next_valid(_, _)
next_valid(v, i) ==
    IF i >= Len(v) THEN 0
    ELSE IF v[i + 1] # NaN THEN i + 1 ELSE next_valid(v, i + 1)

\* rs.ffill()
NoFill_ffill(v) == v
ffill(v) ==
    [i \in 1..Len(v) |->
        IF v[i] # NaN THEN v[i]
        ELSE IF prev_valid(v, i) = 0 THEN NaN
        ELSE v[prev_valid(v, i)]]

\* the middle of the two neighbours, whatever the position in the gap
Midpoint_interpolate(v) ==
    [i \in 1..Len(v) |->
        IF v[i] # NaN THEN v[i]
        ELSE LET p == prev_valid(v, i)
                 n == next_valid(v, i)
             IN IF p = 0 THEN NaN
                ELSE IF n = 0 THEN v[p]
                ELSE RScale(RAdd(v[p], v[n]), 1, 2)]

\* rs.interpolate(): linear over equally spaced rows, limit_direction forward:
\* values after the last valid one repeat it, values before the first stay missing
interpolate(v) ==
    [i \in 1..Len(v) |->
        IF v[i] # NaN THEN v[i]
        ELSE LET p == prev_valid(v, i)
                 n == next_valid(v, i)
             IN IF p = 0 THEN NaN
                ELSE IF n = 0 THEN v[p]
                ELSE RAdd(v[p], RScale(RSub(v[n], v[p]), i - p, n - p))]

\* lines 36-39
fill(v, m) ==
    IF m = "ffill" THEN ffill(v)
    ELSE IF m = "linear" THEN interpolate(v)
    ELSE v

\* rs.to_frame(name="prob").reset_index()
RightLabel_to_frame(d, step, v) ==
    [i \in 1..Len(v) |-> [ts |-> first_edge(d, step) + i * step, prob |-> v[i]]]
to_frame(d, step, v) ==
    [i \in 1..Len(v) |-> [ts |-> first_edge(d, step) + (i - 1) * step, prob |-> v[i]]]

\* (rs["ts"] - start).dt.total_seconds() / 3600.0
SECONDS_PER_HOUR == 3600
Minutes_elapsed_hours(ts, start) == RNorm(<<ts - start, 60>>)
elapsed_hours(ts, start) == RNorm(<<ts - start, SECONDS_PER_HOUR>>)

\* start = rs["ts"].iloc[0]; rs["elapsed_hours"] = ...
with_elapsed_hours(frame) ==
    [i \in 1..Len(frame) |->
        [ts |-> frame[i].ts, prob |-> frame[i].prob,
         elapsed_hours |-> elapsed_hours(frame[i].ts, frame[1].ts)]]

\* ---- inputs of a call ----
\* observation times are multiples of a quarter of an hour
Times == {k * 900 : k \in 0..MaxT}
Probs == {NaN, <<2, 5>>, <<3, 5>>}
Rules == {1800, 3600}
Methods == {"ffill", "linear"}

\* frames as load_history returns them: sorted by ts
Frames(n) ==
    {[i \in 1..n |-> [ts |-> f[i][1], prob |-> f[i][2]]] :
        f \in {g \in [1..n -> Times \X Probs] : \A i \in 1..(n - 1) : g[i][1] <= g[i + 1][1]}}

SInit ==
    /\ spc = "call"
    /\ df \in UNION {Frames(n) : n \in 0..MaxObs}
    /\ rule \in Rules
    /\ method \in Methods
    /\ raw = <<>>
    /\ rs = <<>>
    /\ csv = <<>>

\* resample_df() is not running
SIdle ==
    /\ spc = "idle"
    /\ df = <<>>
    /\ rule = 0
    /\ method = "none"
    /\ raw = <<>>
    /\ rs = <<>>
    /\ csv = <<>>

\* resample_df(df, rule, method)
ResampleDf ==
    /\ spc = "call"
    /\ UNCHANGED notS
    /\ IF df = <<>>
       THEN raw' = <<>> /\ rs' = df
       ELSE /\ raw' = resample_mean(df, rule)
            /\ rs' = to_frame(df, rule, fill(raw', method))
    /\ spc' = "returned"
    /\ UNCHANGED <<df, rule, method, csv>>

\* process_files lines 50-54: elapsed_hours is added and the csv is written
WriteCsv ==
    /\ spc = "returned"
    /\ UNCHANGED notS
    /\ rs # <<>>
    /\ csv' = with_elapsed_hours(rs)
    /\ spc' = "written"
    /\ UNCHANGED <<df, rule, method, raw, rs>>

\* process_files lines 48-49: if rs.empty: continue
SkipEmpty ==
    /\ spc = "returned"
    /\ UNCHANGED notS
    /\ rs = <<>>
    /\ spc' = "skipped"
    /\ UNCHANGED <<df, rule, method, raw, rs, csv>>

SNext == ResampleDf \/ WriteCsv \/ SkipEmpty

----------------------------------------------------------------------------
\* polymarket_btc/api.py get_all_btc_daily_events(load_details, closed_only)

\* events = [evt for evt in events if evt.get("closed")]
closed_events(evts) ==
    LET keep(evt) == evt.closed IN SelectSeq(evts, keep)

\* lines 90-92
ordered_events(evts, only_closed) ==
    sorted_by_end_date(IF only_closed THEN closed_events(evts) ELSE evts)

\* detailed.append(fetch_json(...)): the entry of a fetched payload
payload_entry(evt) == [slug |-> evt.slug, error |-> "none", payload |-> detail_of(evt)]

\* detailed.append({"slug": evt.get("slug"), "error": str(exc)})
placeholder_entry(evt) == [slug |-> evt.slug, error |-> "HTTPError", payload |-> NoEvent]

GInit ==
    /\ gpc = "call"
    /\ g_events \in UNION {EventLists(n) : n \in 0..MaxEvents}
    /\ g_load_details \in BOOLEAN
    /\ closed_only \in BOOLEAN
    /\ ordered = <<>>
    /\ g_i = 0
    /\ detailed = <<>>
    /\ g_result = <<>>
    /\ gexc = "none"

\* get_all_btc_daily_events() is not running
GIdle ==
    /\ gpc = "idle"
    /\ g_events = <<>>
    /\ g_load_details = FALSE
    /\ closed_only = FALSE
    /\ ordered = <<>>
    /\ g_i = 0
    /\ detailed = <<>>
    /\ g_result = <<>>
    /\ gexc = "none"

\* lines 88-95: the series fetch succeeds
GetSeries ==
    /\ gpc = "call"
    /\ UNCHANGED notG
    /\ ordered' = ordered_events(g_events, closed_only)
    /\ IF g_load_details
       THEN gpc' = "loop" /\ g_result' = g_result
       ELSE gpc' = "returned" /\ g_result' = ordered'
    /\ UNCHANGED <<g_events, g_load_details, closed_only, g_i, detailed, gexc>>

\* line 88: the series fetch raises
GetSeriesFail ==
    /\ gpc = "call"
    /\ UNCHANGED notG
    /\ gexc' = "HTTPError"
    /\ gpc' = "raised"
    /\ UNCHANGED <<g_events, g_load_details, closed_only, ordered, g_i, detailed, g_result>>

\* lines 96-98: the detail fetch of the next event succeeds
HydrateOk ==
    /\ gpc = "loop"
    /\ UNCHANGED notG
    /\ g_i < Len(ordered)
    /\ detailed' = Append(detailed, payload_entry(ordered[g_i + 1]))
    /\ g_i' = g_i + 1
    /\ UNCHANGED <<gpc, g_events, g_load_details, closed_only, ordered, g_result, gexc>>

\* lines 99-100: the detail fetch of the next event raises; the loop goes on
Aborting_HydrateFail ==
    /\ gpc = "loop"
    /\ UNCHANGED notG
    /\ g_i < Len(ordered)
    /\ gexc' = "HTTPError"
    /\ gpc' = "raised"
    /\ UNCHANGED <<g_events, g_load_details, closed_only, ordered, g_i, detailed, g_result>>
HydrateFail ==
    /\ gpc = "loop"
    /\ UNCHANGED notG
    /\ g_i < Len(ordered)
    /\ detailed' = Append(detailed, placeholder_entry(ordered[g_i + 1]))
    /\ g_i' = g_i + 1
    /\ UNCHANGED <<gpc, g_events, g_load_details, closed_only, ordered, g_result, gexc>>

\* line 101: return detailed
ReturnDetailed ==
    /\ gpc = "loop"
    /\ UNCHANGED notG
    /\ g_i >= Len(ordered)
    /\ g_result' = detailed
    /\ gpc' = "returned"
    /\ UNCHANGED <<g_events, g_load_details, closed_only, ordered, g_i, detailed, gexc>>

GNext == GetSeries \/ GetSeriesFail \/ HydrateOk \/ HydrateFail \/ ReturnDetailed

----------------------------------------------------------------------------
\* polymarket_btc/recorders.py poll_trades_to_file(token_id, out_path, interval_sec, iterations)

\* the token polled
TokenId == "tok"

\* append_ndjson: the file is opened in mode "a" and one line is written
append_ndjson(file, obj) == Append(file, obj)

\* {"ts": time.time(), "token_id": token_id, "trades": trades}
trades_record(t, trades) == [ts |-> t, token_id |-> TokenId, trades |-> trades, error |-> "none"]

\* {"ts": time.time(), "token_id": token_id, "error": str(exc)}
error_record(t) == [ts |-> t, token_id |-> TokenId, trades |-> <<>>, error |-> "HTTPError"]

\* if i < iterations - 1: time.sleep(interval_sec)
Always_sleeps_after(i, n) == TRUE
sleeps_after(i, n) == i < n - 1

\* what GET /trades may return
TradeLists == {<<>>, <<7>>}

PInit ==
    /\ ppc = "fetch"
    /\ iterations \in 0..MaxIter
    /\ interval_sec \in {1, 10}
    /\ p_i = 0
    /\ clock = 0
    /\ nd_file \in {<<>>, <<error_record(0)>>}
    /\ nd_pre = nd_file
    /\ outcomes = <<>>
    /\ p_waits = 0

\* poll_trades_to_file() is not running
PIdle ==
    /\ ppc = "idle"
    /\ iterations = 0
    /\ interval_sec = 0
    /\ p_i = 0
    /\ clock = 0
    /\ nd_file = <<>>
    /\ nd_pre = <<>>
    /\ outcomes = <<>>
    /\ p_waits = 0

\* after the try/except of iteration i: sleep, or take the next i
after_record ==
    IF sleeps_after(p_i, iterations)
    THEN ppc' = "wait" /\ p_i' = p_i
    ELSE ppc' = "fetch" /\ p_i' = p_i + 1

\* lines 60-62, 65: fetch_trades returns and the trades record is appended
PollOk ==
    /\ ppc = "fetch"
    /\ UNCHANGED notP
    /\ p_i < iterations
    /\ \E trades \in TradeLists :
          /\ nd_file' = append_ndjson(nd_file, trades_record(clock, trades))
          /\ outcomes' = Append(outcomes, [ok |-> TRUE, trades |-> trades])
    /\ after_record
    /\ UNCHANGED <<iterations, interval_sec, clock, nd_pre, p_waits>>

\* lines 60-61, 63-65: fetch_trades raises and the error record is appended
PollFail ==
    /\ ppc = "fetch"
    /\ UNCHANGED notP
    /\ p_i < iterations
    /\ nd_file' = append_ndjson(nd_file, error_record(clock))
    /\ outcomes' = Append(outcomes, [ok |-> FALSE, trades |-> <<>>])
    /\ after_record
    /\ UNCHANGED <<iterations, interval_sec, clock, nd_pre, p_waits>>

\* line 66: time.sleep(interval_sec), then the next i
PollWait ==
    /\ ppc = "wait"
    /\ UNCHANGED notP
    /\ clock' = clock + interval_sec
    /\ p_waits' = p_waits + 1
    /\ p_i' = p_i + 1
    /\ ppc' = "fetch"
    /\ UNCHANGED <<iterations, interval_sec, nd_file, nd_pre, outcomes>>

\* range(iterations) is exhausted: the function returns
PollEnd ==
    /\ ppc = "fetch"
    /\ UNCHANGED notP
    /\ p_i >= iterations
    /\ ppc' = "done"
    /\ UNCHANGED <<iterations, interval_sec, p_i, clock, nd_file, nd_pre, outcomes, p_waits>>

PNext == PollOk \/ PollFail \/ PollWait \/ PollEnd

----------------------------------------------------------------------------
\* Specifications: one program runs, the others are idle

InitBackfill == BInit /\ RIdle /\ SIdle /\ GIdle /\ PIdle
SpecBackfill == InitBackfill /\ [][BNext]_vars
\* main() is one thread and every GET has a timeout: a step is always taken
SpecBackfillFair == SpecBackfill /\ WF_vars(BNext)

InitResolver == BIdle /\ RInit /\ SIdle /\ GIdle /\ PIdle
SpecResolver == InitResolver /\ [][RNext]_vars

InitResample == BIdle /\ RIdle /\ SInit /\ GIdle /\ PIdle
SpecResample == InitResample /\ [][SNext]_vars

InitGetAll == BIdle /\ RIdle /\ SIdle /\ GInit /\ PIdle
SpecGetAll == InitGetAll /\ [][GNext]_vars

InitPoll == BIdle /\ RIdle /\ SIdle /\ GIdle /\ PInit
SpecPoll == InitPoll /\ [][PNext]_vars
\* the loop is one thread, fetch_trades has a timeout and sleep returns
SpecPollFair == SpecPoll /\ WF_vars(PNext)

----------------------------------------------------------------------------
\* Claims about the chunk planner and the backfill (SpecBackfill)

\* C1: for start < end and a positive granularity the planned chunks are a
\* non-empty sequence of non-empty intervals, the first starts at start, the
\* last ends at end, each chunk ends where the next starts, and no chunk is
\* wider than granularity x 300.
C1_ChunksCoverRange ==
    (start_dt < end_dt /\ granularity > 0) =>
        LET ch == planned IN
        /\ Len(ch) >= 1
        /\ ch[1][1] = start_dt
        /\ ch[Len(ch)][2] = end_dt
        /\ \A i \in 1..(Len(ch) - 1) : ch[i][2] = ch[i + 1][1]
        /\ \A i \in 1..Len(ch) :
              /\ ch[i][1] < ch[i][2]
              /\ ch[i][2] - ch[i][1] <= granularity * 300

\* a finished run over a range of several chunks whose last chunk is cut at end
C1_Witness ==
    /\ pc = "done"
    /\ start_dt < end_dt
    /\ chunk_i = Len(planned)
    /\ Len(planned) >= 2
    /\ planned[Len(planned)][2] - planned[Len(planned)][1] < granularity * 300

\* the rows this run appended to the output file
appended == SubSeq(out_rows, Len(pre_rows) + 1, Len(out_rows))

\* order of two timestamps as written in the file (day, hour, minute, second)
IsoLess(a, b) ==
    \E k \in 1..4 : a[k] < b[k] /\ \A j \in 1..(k - 1) : a[j] = b[j]

\* C2: the rows appended over all chunks are strictly ascending by timestamp,
\* hence without a duplicate timestamp.
C2_StrictlyAscending ==
    \A i \in 1..Len(appended) : \A j \in 1..Len(appended) :
        i < j => IsoLess(appended[i].timestamp, appended[j].timestamp)

\* C3: a run stops at a failed fetch only when no later chunk is planned:
\* after a failure the remaining chunks are still fetched.
C3_ContinuesAfterFailure ==
    pc = "crashed" => chunk_i + 1 >= Len(planned)

\* the row a candle <<time, low, high, open, close, volume>> stands for
C4_RowOf(c) ==
    [timestamp |-> << c[1] \div 86400, (c[1] % 86400) \div 3600,
                      (c[1] % 3600) \div 60, c[1] % 60 >>,
     open |-> c[4], high |-> c[3], low |-> c[2], close |-> c[5], volume |-> c[6]]

\* number of rows in the file before the rows of the k-th successful fetch
RECURSIVE C4_Offset(_)
C4_Offset(k) ==
    IF k <= 1 THEN Len(pre_rows) ELSE C4_Offset(k - 1) + Len(fetched[k - 1])

C4_FileHoldsFetched ==
    /\ Len(out_rows) = C4_Offset(Len(fetched) + 1)
    /\ SubSeq(out_rows, 1, Len(pre_rows)) = pre_rows
    /\ \A k \in 1..Len(fetched) :
          {out_rows[C4_Offset(k) + i] : i \in 1..Len(fetched[k])}
              = {C4_RowOf(fetched[k][i]) : i \in 1..Len(fetched[k])}

C4_RowsKept ==
    /\ Len(out_rows') >= Len(out_rows)
    /\ SubSeq(out_rows', 1, Len(out_rows)) = out_rows

\* C4: at every point of a run, also after a failed fetch stopped it, the
\* file holds the earlier rows followed by the rows of every successful fetch,
\* chunk after chunk, each row one of the candles of that fetch; no step
\* changes or removes a row already written.
C4_PartialResultsPersist == [](C4_FileHoldsFetched) /\ [][C4_RowsKept]_vars

\* a run stopped by the failed fetch of its second chunk, after a first fetch
\* that returned candles
C4_Witness ==
    /\ pc = "crashed"
    /\ Len(fetched) >= 1
    /\ Len(fetched) < Len(planned)
    /\ \A k \in 1..Len(fetched) : Len(fetched[k]) >= 1
    /\ Len(out_rows) > Len(pre_rows)

----------------------------------------------------------------------------
\* Claims about the event resolver (SpecResolver)

\* the end instant of the i-th listed event; an event without endDate counts
\* as the earliest possible time
EndOf(i) ==
    IF events[i].endDate = <<>> THEN -1
    ELSE events[i].endDate[1] * 24 + events[i].endDate[2]

\* the listed events that are open and end after now
OpenFuture ==
    {i \in 1..Len(events) :
        (~events[i].closed) /\ events[i].endDate # <<>> /\ EndOf(i) > now}

\* C5: when some event is open and ends after now, the call without details
\* returns an event of that set whose endDate is the smallest of the set.
C5_SoonestOpenEvent ==
    (rpc = "returned" /\ ~load_details /\ OpenFuture # {}) =>
        /\ result.slug \in OpenFuture
        /\ result = events[result.slug]
        /\ \A i \in OpenFuture : EndOf(result.slug) <= EndOf(i)

\* events (day 2, open), (day 3, open), (day 1, closed) with now before all:
\* the day-2 event is returned
C5_Witness ==
    /\ rpc = "returned"
    /\ ~load_details
    /\ Len(events) = 3
    /\ events[1].endDate = <<2, 17>> /\ ~events[1].closed
    /\ events[2].endDate = <<3, 17>> /\ ~events[2].closed
    /\ events[3].endDate = <<1, 17>> /\ events[3].closed
    /\ now = 24 + 16
    /\ result.slug = 1

\* C6: when the series is not empty and no event is open and ends after now,
\* the call without details returns an event whose endDate is the largest of
\* all events, closed or not, an event without endDate counting as earliest.
C6_FallbackLatestEvent ==
    (rpc = "returned" /\ ~load_details /\ events # <<>> /\ OpenFuture = {}) =>
        /\ result.slug \in 1..Len(events)
        /\ result = events[result.slug]
        /\ \A i \in 1..Len(events) : EndOf(i) <= EndOf(result.slug)

\* all events are past, one of them has no endDate and is listed first, and the
\* returned event is a later-listed one with an endDate
C6_Witness ==
    /\ rpc = "returned"
    /\ ~load_details
    /\ Len(events) >= 3
    /\ OpenFuture = {}
    /\ events[1].endDate = <<>>
    /\ \E i \in 2..Len(events) : ~events[i].closed /\ events[i].endDate # <<>>
    /\ result.endDate # <<>>
    /\ result.closed

\* C7: with an empty series the call raises the no-events error, returns no
\* event and issues no detail fetch.
C7_EmptySeriesFails ==
    (events = <<>> /\ rpc # "call") =>
        /\ rpc = "raised"
        /\ result = NoEvent
        /\ detail_fetches = 0
        /\ rexc # "HTTPError" => rexc = "ValueError"

\* the series was fetched, is empty, details were asked for, and the call raised
C7_Witness ==
    /\ events = <<>>
    /\ load_details
    /\ rpc = "raised"
    /\ rexc = "ValueError"

\* the events among which the resolver selects
C8_Pool == IF OpenFuture # {} THEN OpenFuture ELSE 1..Len(events)

\* C8: of the events that share the selected endDate, the one listed first by
\* the provider is returned, in the open-and-future branch and in the
\* fallback branch.
C8_FirstListedWinsTie ==
    (rpc = "returned" /\ events # <<>>) =>
        /\ result.slug \in C8_Pool
        /\ \A i \in C8_Pool : EndOf(i) = EndOf(result.slug) => result.slug <= i

\* fallback branch: two events listed after an earlier one share the largest
\* endDate and the first listed of the two is returned
C8_Witness ==
    /\ rpc = "returned"
    /\ OpenFuture = {}
    /\ Len(events) >= 3
    /\ EndOf(1) < EndOf(2)
    /\ EndOf(2) = EndOf(3)
    /\ result.slug = 2

----------------------------------------------------------------------------
\* Claims about the resampler (SpecResample)

\* the observations with timestamp in [g, g + rule)
C9_InBucket(g) == {j \in 1..Len(df) : g <= df[j].ts /\ df[j].ts < g + rule}

\* those of them that carry a value
C9_Valued(g) == {j \in C9_InBucket(g) : df[j].prob # NaN}

RECURSIVE C9_SumOver(_)
C9_SumOver(S) ==
    IF S = {} THEN <<0, 1>>
    ELSE LET j == CHOOSE x \in S : TRUE
         IN RAdd(df[j].prob, C9_SumOver(S \ {j}))

\* C9: for a non-empty sorted series the output has exactly one point per grid
\* instant anchor + k * rule, k = 0, 1, ..., up to the largest one not after the
\* last observation, anchor being the first observation's timestamp; before
\* filling, the value of a bucket is the mean of the values observed in
\* [instant, instant + rule), and it is missing when nothing falls in it.
C9_GridAndBucketMeans ==
    (spc = "returned" /\ df # <<>>) =>
        /\ Len(rs) >= 1
        /\ Len(raw) = Len(rs)
        /\ \A i \in 1..Len(rs) : rs[i].ts = df[1].ts + (i - 1) * rule
        /\ rs[Len(rs)].ts <= df[Len(df)].ts
        /\ rs[Len(rs)].ts + rule > df[Len(df)].ts
        /\ \A i \in 1..Len(rs) :
              LET g == df[1].ts + (i - 1) * rule IN
              /\ C9_InBucket(g) = {} => raw[i] = NaN
              /\ C9_Valued(g) = {} => raw[i] = NaN
              /\ C9_Valued(g) # {} =>
                    /\ raw[i] # NaN
                    /\ RScale(raw[i], Cardinality(C9_Valued(g)), 1) = C9_SumOver(C9_Valued(g))

\* the anchor is not on a multiple of the rule, the first bucket averages 0.4
\* and 0.6, the second bucket is empty and the last observation lies after
\* the last grid instant
C9_Witness ==
    /\ spc = "returned"
    /\ Len(df) = 3
    /\ df[1].ts = 900
    /\ rule = 1800
    /\ Len(raw) = 3
    /\ raw[1] = <<1, 2>>
    /\ raw[2] = NaN
    /\ raw[3] # NaN
    /\ rs[3].ts < df[3].ts

\* index of the most recent bucket before i whose mean is not missing, 0 if none
C10_LastValued(i) ==
    IF \E j \in 1..(i - 1) : raw[j] # NaN
    THEN CHOOSE j \in 1..(i - 1) : raw[j] # NaN /\ \A m \in (j + 1)..(i - 1) : raw[m] = NaN
    ELSE 0

\* C10: under ffill a bucket with observations keeps its mean and a bucket
\* without a value takes the value of the most recent earlier bucket that has
\* one; observations (0, 0.4), (3600, 0.6) with rule 1800 give 0.4, 0.4, 0.6
\* at 0, 1800, 3600.
C10_ForwardFill ==
    (spc = "returned" /\ method = "ffill" /\ df # <<>>) =>
        /\ \A i \in 1..Len(rs) :
              /\ raw[i] # NaN => rs[i].prob = raw[i]
              /\ (raw[i] = NaN /\ C10_LastValued(i) # 0) => rs[i].prob = raw[C10_LastValued(i)]
              /\ (raw[i] = NaN /\ C10_LastValued(i) = 0) => rs[i].prob = NaN
        /\ (df = <<[ts |-> 0, prob |-> <<2, 5>>], [ts |-> 3600, prob |-> <<3, 5>>]>> /\ rule = 1800) =>
              rs = <<[ts |-> 0, prob |-> <<2, 5>>], [ts |-> 1800, prob |-> <<2, 5>>],
                     [ts |-> 3600, prob |-> <<3, 5>>]>>

\* the example of the claim, resampled with ffill
C10_Witness ==
    /\ spc = "returned"
    /\ method = "ffill"
    /\ rule = 1800
    /\ df = <<[ts |-> 0, prob |-> <<2, 5>>], [ts |-> 3600, prob |-> <<3, 5>>]>>
    /\ Len(rs) = 3
    /\ rs[2].prob = <<2, 5>>

----------------------------------------------------------------------------
\* Further claims about the backfill (SpecBackfill, SpecBackfillFair)

\* the run has ended
C15_Ended == pc \in {"done", "crashed"}

\* a run that ended without a failed fetch over a range start < end issued n
\* fetches, n = ceil((end - start) / (granularity * 300)), the i-th for the i-th
\* interval of that width from start (the last cut at end), and reports n chunks
C15_FetchPerChunk ==
    (pc = "done" /\ start_dt < end_dt) =>
        LET span == granularity * 300
            n == Len(wire)
        IN /\ (n - 1) * span < end_dt - start_dt
           /\ end_dt - start_dt <= n * span
           /\ \A i \in 1..n :
                 wire[i] = <<"request", start_dt + (i - 1) * span,
                             IF start_dt + i * span < end_dt THEN start_dt + i * span ELSE end_dt>>
           /\ total_chunks = n
           /\ (granularity = 300 /\ end_dt - start_dt = 26 * 3600) => n = 2

\* C15: the backfill loop terminates and, when no fetch fails, issues exactly
\* ceil((end - start) / (granularity x 300)) fetches, one per planned chunk in
\* chunk order; 26 hours at 300 s give 2 fetches; the reported chunk count is
\* the number of fetches.
C15_TerminatesWithOneFetchPerChunk == [](C15_FetchPerChunk) /\ <>(C15_Ended)

\* the 26-hour run at granularity 300 has finished after two fetches
C15_Witness ==
    /\ pc = "done"
    /\ granularity = 300
    /\ end_dt - start_dt = 26 * 3600
    /\ Len(wire) = 2
    /\ total_chunks = 2

\* C16: a backfill over a range with start >= end does not complete as a
\* successful run (the planner fails with an invalid-range error instead of
\* yielding an empty chunk sequence).
C16_InvalidRangeFails ==
    start_dt >= end_dt => pc # "done"

\* C17: no two requests are issued back to back: a delay step lies between
\* any two consecutive requests, also after a request that failed.
C17_DelayBetweenRequests ==
    \A i \in 1..(Len(wire) - 1) :
        ~(wire[i][1] = "request" /\ wire[i + 1][1] = "request")

----------------------------------------------------------------------------
\* Further claims about the resampler (SpecResample)

\* index of the first bucket after i whose mean is not missing, 0 if none
C11_NextValued(i) ==
    IF \E j \in (i + 1)..Len(raw) : raw[j] # NaN
    THEN CHOOSE j \in (i + 1)..Len(raw) : raw[j] # NaN /\ \A m \in (i + 1)..(j - 1) : raw[m] = NaN
    ELSE 0

\* C11: under the linear policy a missing bucket between an earlier and a later
\* non-missing bucket gets the value on the straight line between the nearest
\* two, in proportion to its grid position; observations (0, 0.4), (3600, 0.6)
\* with rule 1800 give 0.5 at 1800.
C11_LinearInterpolation ==
    (spc = "returned" /\ method = "linear" /\ df # <<>>) =>
        /\ \A i \in 1..Len(rs) :
              LET p == C10_LastValued(i)
                  n == C11_NextValued(i)
              IN (raw[i] = NaN /\ p # 0 /\ n # 0) =>
                    /\ rs[i].prob # NaN
                    /\ RScale(rs[i].prob, n - p, 1)
                          = RAdd(RScale(raw[p], n - i, 1), RScale(raw[n], i - p, 1))
        /\ (df = <<[ts |-> 0, prob |-> <<2, 5>>], [ts |-> 3600, prob |-> <<3, 5>>]>> /\ rule = 1800) =>
              rs[2] = [ts |-> 1800, prob |-> <<1, 2>>]

\* the example of the claim, resampled with the linear policy
C11_Witness ==
    /\ spc = "returned"
    /\ method = "linear"
    /\ rule = 1800
    /\ df = <<[ts |-> 0, prob |-> <<2, 5>>], [ts |-> 3600, prob |-> <<3, 5>>]>>
    /\ Len(rs) = 3
    /\ rs[2].prob = <<1, 2>>

\* index of the last bucket whose mean is not missing, 0 if none
C12_LastValuedBucket == C10_LastValued(Len(raw) + 1)

\* C12: under the linear policy the buckets that are missing after the last
\* non-missing bucket get no value and are not in the output of resample_df
\* nor in the written file.
C12_TrailingMissingDropped ==
    (method = "linear" /\ spc \in {"returned", "written"} /\ C12_LastValuedBucket # 0) =>
        /\ Len(rs) <= C12_LastValuedBucket
        /\ spc = "written" => Len(csv) <= C12_LastValuedBucket

\* a rational <<n, d>> is at most another
C13_Leq(a, b) == a[1] * b[2] <= b[1] * a[2]

\* C13: in a written file elapsed_hours of the first point is 0, that of each
\* point is (its grid timestamp - anchor) / 3600 with anchor the first
\* observation's timestamp, and it is non-negative and non-decreasing.
C13_ElapsedHours ==
    spc = "written" =>
        /\ Len(csv) = Len(rs)
        /\ Len(csv) >= 1
        /\ csv[1].elapsed_hours = <<0, 1>>
        /\ \A i \in 1..Len(csv) :
              /\ csv[i].ts = rs[i].ts
              /\ csv[i].elapsed_hours[2] > 0
              /\ csv[i].elapsed_hours[1] * 3600 = (csv[i].ts - df[1].ts) * csv[i].elapsed_hours[2]
              /\ csv[i].elapsed_hours[1] >= 0
        /\ \A i \in 1..(Len(csv) - 1) : C13_Leq(csv[i].elapsed_hours, csv[i + 1].elapsed_hours)

\* a written file of three points whose anchor is not 0: half an hour, one hour
C13_Witness ==
    /\ spc = "written"
    /\ df[1].ts = 900
    /\ rule = 1800
    /\ Len(csv) = 3
    /\ csv[2].elapsed_hours = <<1, 2>>
    /\ csv[3].elapsed_hours = <<1, 1>>

\* the series has one observation, with a value, at anchor + k * rule for every
\* k from 0 to its length - 1
C14_OnGrid ==
    /\ df # <<>>
    /\ \A k \in 1..Len(df) : df[k].ts = df[1].ts + (k - 1) * rule /\ df[k].prob # NaN

\* C14: resampling a series that is on the grid without gaps returns the same
\* timestamps and values, under ffill and under linear.
C14_OnGridIdentity ==
    (spc = "returned" /\ C14_OnGrid) => rs = df

\* three on-grid observations from anchor 900 with differing values, linear
C14_Witness ==
    /\ spc = "returned"
    /\ method = "linear"
    /\ C14_OnGrid
    /\ Len(df) = 3
    /\ df[1].ts = 900
    /\ df[1].prob # df[2].prob
    /\ rs = df

----------------------------------------------------------------------------
\* Claims about get_all_btc_daily_events (SpecGetAll)

\* the end instant of the i-th listed event, a missing endDate counting as the
\* earliest possible time
C18_EndOf(i) ==
    IF g_events[i].endDate = <<>> THEN -1
    ELSE g_events[i].endDate[1] * 24 + g_events[i].endDate[2]

\* the listed events the call is about
C18_Pool == {i \in 1..Len(g_events) : closed_only => g_events[i].closed}

\* C18: with load_details the call returns exactly one entry per event, in
\* ascending endDate order (no endDate first, equal endDates in provider
\* order): the fetched payload when the detail fetch succeeded, a placeholder
\* {slug, error} when it failed; a failed detail fetch never ends the call.
C18_OneEntryPerEvent ==
    /\ (gpc = "returned" /\ g_load_details) =>
          /\ Len(g_result) = Cardinality(C18_Pool)
          /\ {g_result[k].slug : k \in 1..Len(g_result)} = C18_Pool
          /\ \A k \in 1..(Len(g_result) - 1) :
                \/ C18_EndOf(g_result[k].slug) < C18_EndOf(g_result[k + 1].slug)
                \/ /\ C18_EndOf(g_result[k].slug) = C18_EndOf(g_result[k + 1].slug)
                   /\ g_result[k].slug < g_result[k + 1].slug
          /\ \A k \in 1..Len(g_result) :
                \/ /\ g_result[k].error = "none"
                   /\ g_result[k].payload = [g_events[g_result[k].slug] EXCEPT !.detailed = TRUE]
                \/ /\ g_result[k].error # "none"
                   /\ g_result[k].payload = NoEvent
    /\ gpc = "raised" => (g_i = 0 /\ detailed = <<>>)

\* three events returned in another order than listed, the one without endDate
\* first; the first detail fetch failed and a later one succeeded
C18_Witness ==
    /\ gpc = "returned"
    /\ g_load_details
    /\ ~closed_only
    /\ Len(g_result) = 3
    /\ g_events[3].endDate = <<>>
    /\ g_result[1].slug = 3
    /\ g_result[2].slug = 2
    /\ g_result[1].error # "none"
    /\ g_result[3].error = "none"

----------------------------------------------------------------------------
\* Claims about poll_trades_to_file (SpecPollFair)

\* the records this call appended
C19_Appended == SubSeq(nd_file, Len(nd_pre) + 1, Len(nd_file))

\* one record per fetch made so far, in fetch order: the trades when the fetch
\* succeeded, an error when it failed; after the call n fetches and n - 1 waits
C19_OneRecordPerIteration ==
    /\ Len(nd_file) = Len(nd_pre) + Len(outcomes)
    /\ \A k \in 1..Len(outcomes) :
          /\ C19_Appended[k].ts = (k - 1) * interval_sec
          /\ outcomes[k].ok =>
                (C19_Appended[k].error = "none" /\ C19_Appended[k].trades = outcomes[k].trades)
          /\ ~outcomes[k].ok => C19_Appended[k].error # "none"
    /\ ppc = "done" =>
          /\ Len(outcomes) = iterations
          /\ p_waits = (IF iterations = 0 THEN 0 ELSE iterations - 1)
          /\ clock = p_waits * interval_sec

\* no step changes or removes a record of the file
C19_RecordsKept ==
    /\ Len(nd_file') >= Len(nd_file)
    /\ SubSeq(nd_file', 1, Len(nd_file)) = nd_file

\* C19: with iterations = n the call appends exactly n records, one per
\* iteration and in iteration order, a trades record after a successful fetch
\* and an error record after a failed one; a failed fetch does not end the
\* loop, earlier records are never changed, the loop waits interval_sec between
\* iterations but not after the last, and it terminates after n fetches and
\* n - 1 waits.
C19_PollAppendsNRecords ==
    [](C19_OneRecordPerIteration) /\ [][C19_RecordsKept]_vars /\ <>(ppc = "done")

\* a finished call of three iterations into a file that had a record: the
\* first fetch failed, the later ones succeeded, two waits
C19_Witness ==
    /\ ppc = "done"
    /\ iterations = 3
    /\ Len(nd_pre) = 1
    /\ Len(nd_file) = 4
    /\ ~outcomes[1].ok
    /\ outcomes[2].ok /\ outcomes[3].ok
    /\ p_waits = 2

====
